---- MODULE Spec2Model ----
(***************************************************************************)
(* Model of firstcredit_daxko_.py: a sequential batch job that             *)
(* authenticates once, then for each target date lists the files after a   *)
(* cursor, resolves a download URL per file and streams it to a local      *)
(* file.  One action per HTTP call made by main(); the remote server and   *)
(* the transport are the nondeterministic environment.                     *)
(***************************************************************************)
EXTENDS Integers, Sequences, FiniteSets, TLC

VARIABLES
    pc,            \* position of main(): "start", "list", "resolve", "fetch", "done"
    access_token,  \* main's access_token (None before authenticate returns)
    dateIdx,       \* index into target_dates of the current date_str
    files,         \* main's files (result of the last list_files_in_prefix)
    fileIdx,       \* index into files of the current file
    download_url,  \* main's download_url (result of the last generate_download_url)
    localFiles,    \* the working directory: path -> sequence of written chunks
    raised,        \* an exception reached main's except clause
    lastCall,      \* history: the most recent HTTP call, its request and its outcome
    calls,         \* history: number of calls to authenticate, list_files_in_prefix
                   \*          and generate_download_url
    cursors,       \* history: the start_after_file of every listing call, in order
    served,        \* history: the records of the last listing's 200 response
    attempted,     \* history: names resolved since the last listing call
    opened,        \* history: local paths the run opened for writing
    lastGood,      \* history: path -> body of the last download that completed
    scenario       \* history: every listing so far answered 200 with 2 files
                   \*          for the first date and 0 for the others

vars == <<pc, access_token, dateIdx, files, fileIdx, download_url, localFiles,
          raised, lastCall, calls, cursors, served, attempted, opened, lastGood,
          scenario>>

-----------------------------------------------------------------------------
(* Bounds of the environment *)

MaxFiles == 2      \* longest "results" list the server returns
MaxChunks == 1     \* most chunks in a downloaded body

(* Program constants *)

PREFIX == "FirstCreditPaymentByItem"
FILES_URL == "https://api.partners.daxko.com/api/v1/bulk-data/drive/files"
DOWNLOAD_URL_BASE == "https://api.partners.daxko.com/api/v1/bulk-data/drive/download"
AUTH_URL == "AUTH_URL"
target_dates == <<"08-10-2024", "08-11-2024", "08-12-2024">>

None == "None"

-----------------------------------------------------------------------------
(* Python helpers *)

\* bool(v) for an Optional[str]
Truthy(v) == v # None /\ v # ""

\* dict.get(k, default)
Get(d, k, default) == IF k \in DOMAIN d THEN d[k] ELSE default

\* str.split('/') on a name given as its sequence of characters
RECURSIVE Split(_)
Split(s) ==
    IF \A i \in 1..Len(s) : s[i] # "/"
    THEN <<s>>
    ELSE LET i == CHOOSE k \in 1..Len(s) :
                     s[k] = "/" /\ \A j \in 1..(k - 1) : s[j] # "/"
         IN  <<SubSeq(s, 1, i - 1)>> \o Split(SubSeq(s, i + 1, Len(s)))

\* variant: split('/')[0]
LocalFilenameFirstSegment(file_name) == Split(file_name)[1]

\* main line 130: file_name.split('/')[-1]
LocalFilename(file_name) == Split(file_name)[Len(Split(file_name))]

\* variant: f"{PREFIX}-{date_str}"
StartAfterFileDateOnly(date_str) == <<PREFIX, "-", date_str>>

\* main line 117: f"{PREFIX}/{PREFIX}-{date_str}"
StartAfterFile(date_str) == <<PREFIX, "/", PREFIX, "-", date_str>>

-----------------------------------------------------------------------------
(* The environment: what the remote endpoints and the transport can answer. *)

Statuses == {200, 204, 500}
Tokens == {"t1", "t2"}
Urls == {"u1"}
EmptyDict == [k \in {} |-> None]

\* remote keys: two that share the basename "a", and one ending in '/'
FileNames == { <<"d", "/", "a">>, <<"e", "/", "a">>, <<"d", "/">> }

WellFormedRecords == { [name |-> n, lastModifiedAtUtc |-> 1] : n \in FileNames }
Records == WellFormedRecords \cup { [name |-> <<"d", "/", "a">>], [lastModifiedAtUtc |-> 1] }

SeqsUpTo(S, n) == UNION { [1..k -> S] : k \in 0..n }

\* requests raised instead of returning a response (connection error, ...)
TransportError == [kind |-> "error", status |-> 0, parses |-> FALSE, json |-> EmptyDict]

\* a response whose body response.json() reads as the dict j
Http(s, j) == [kind |-> "http", status |-> s, parses |-> TRUE, json |-> j]

\* a response whose body is not JSON: response.json() raises
NotJson(s) == [kind |-> "http", status |-> s, parses |-> FALSE, json |-> EmptyDict]

\* every response to a JSON endpoint: the dicts under 200, and under the other
\* statuses (whose body the wrappers never parse) one of them
JsonResponses(dicts, sample) ==
    {TransportError} \cup { NotJson(s) : s \in Statuses }
        \cup { Http(200, j) : j \in dicts }
        \cup { Http(s, sample) : s \in Statuses \ {200} }

AuthResponses ==
    JsonResponses({EmptyDict} \cup { [access_token |-> t] : t \in Tokens \cup {""} },
                  [access_token |-> "t1"])

ListResponses ==
    JsonResponses({EmptyDict} \cup { [results |-> r] : r \in SeqsUpTo(Records, MaxFiles) },
                  [results |-> << [name |-> <<"d", "/", "a">>, lastModifiedAtUtc |-> 1] >>])

UrlResponses ==
    JsonResponses({EmptyDict} \cup { [downloadUrl |-> u] : u \in Urls \cup {""} },
                  [downloadUrl |-> "u1"])

Bodies == SeqsUpTo({1}, MaxChunks)

\* a streamed response: body is the remote content in chunks of chunk_size,
\* delivered the number of chunks iter_content yields before the connection
\* breaks (all of them when it does not)
DownloadResponses ==
    { [kind |-> "error", status |-> 0, body |-> <<>>, delivered |-> 0] }
        \cup { [kind |-> "http", status |-> s, body |-> <<>>, delivered |-> 0] :
                   s \in Statuses \ {200} }
        \cup UNION { { [kind |-> "http", status |-> 200, body |-> b, delivered |-> k] :
                          k \in 0..Len(b) } : b \in Bodies }

-----------------------------------------------------------------------------
(* The four wrappers, as functions of the response the call receives. *)

Return(v) == [exc |-> FALSE, ret |-> v]
Raise(v) == [exc |-> TRUE, ret |-> v]

\* authenticate(), lines 36-43
authenticate(resp) ==
    IF resp.kind = "error" THEN Raise(None)
    ELSE IF resp.status = 200
         THEN IF resp.parses
              THEN Return(Get(resp.json, "access_token", None))
              ELSE Raise(None)
         ELSE Return(None)

\* the logging loop of lines 61-62 reads file['name'] and file['lastModifiedAtUtc']
LogsAll(fs) ==
    \A i \in 1..Len(fs) :
        "name" \in DOMAIN fs[i] /\ "lastModifiedAtUtc" \in DOMAIN fs[i]

\* variant: response.raise_for_status() instead of returning []
ListFilesRaisesOnFailure(resp) ==
    IF resp.kind = "error" \/ resp.status # 200 \/ ~resp.parses THEN Raise(<<>>)
    ELSE LET fs == Get(resp.json, "results", <<>>)
         IN  IF LogsAll(fs) THEN Return(fs) ELSE Raise(<<>>)

\* variant: returns files[1:]
ListFilesDropsFirst(resp) ==
    IF resp.kind = "error" THEN Raise(<<>>)
    ELSE IF resp.status = 200
         THEN IF resp.parses
              THEN LET fs == Get(resp.json, "results", <<>>)
                   IN  IF Len(fs) > 0
                       THEN IF LogsAll(fs) THEN Return(Tail(fs)) ELSE Raise(<<>>)
                       ELSE Return(<<>>)
              ELSE Raise(<<>>)
         ELSE Return(<<>>)

\* list_files_in_prefix(), lines 53-70
list_files_in_prefix(resp) ==
    IF resp.kind = "error" THEN Raise(<<>>)
    ELSE IF resp.status = 200
         THEN IF resp.parses
              THEN LET fs == Get(resp.json, "results", <<>>)
                   IN  IF Len(fs) > 0
                       THEN IF LogsAll(fs) THEN Return(fs) ELSE Raise(<<>>)
                       ELSE Return(<<>>)
              ELSE Raise(<<>>)
         ELSE Return(<<>>)

\* generate_download_url(), lines 79-85
generate_download_url(resp) ==
    IF resp.kind = "error" THEN Raise(None)
    ELSE IF resp.status = 200
         THEN IF resp.parses
              THEN Return(Get(resp.json, "downloadUrl", None))
              ELSE Raise(None)
         ELSE Return(None)

\* open(path, 'wb'): creates or truncates; an empty path cannot be opened
CanOpen(path) == path # <<>>
Truncate(fs, path) ==
    [p \in DOMAIN fs \cup {path} |-> IF p = path THEN <<>> ELSE fs[p]]

\* for chunk in response.iter_content(...): f.write(chunk)
RECURSIVE WriteChunks(_, _, _)
WriteChunks(fs, path, chunks) ==
    IF chunks = <<>> THEN fs
    ELSE WriteChunks([fs EXCEPT ![path] = @ \o <<Head(chunks)>>], path, Tail(chunks))

Unwritten(fs) == [exc |-> FALSE, fs |-> fs, opened |-> FALSE]

\* variant: the file is opened before the status is looked at
DownloadFileOpensFirst(resp, fs, local_filename) ==
    IF resp.kind = "error" THEN [exc |-> TRUE, fs |-> fs, opened |-> FALSE]
    ELSE IF ~CanOpen(local_filename) THEN [exc |-> TRUE, fs |-> fs, opened |-> FALSE]
    ELSE IF resp.status = 200
         THEN [exc |-> resp.delivered < Len(resp.body),
               fs |-> WriteChunks(Truncate(fs, local_filename), local_filename,
                                  SubSeq(resp.body, 1, resp.delivered)),
               opened |-> TRUE]
         ELSE [exc |-> FALSE, fs |-> Truncate(fs, local_filename), opened |-> TRUE]

\* download_file(), lines 92-100
download_file(resp, fs, local_filename) ==
    IF resp.kind = "error" THEN [exc |-> TRUE, fs |-> fs, opened |-> FALSE]
    ELSE IF resp.status = 200
         THEN IF CanOpen(local_filename)
              THEN [exc |-> resp.delivered < Len(resp.body),
                    fs |-> WriteChunks(Truncate(fs, local_filename), local_filename,
                                       SubSeq(resp.body, 1, resp.delivered)),
                    opened |-> TRUE]
              ELSE [exc |-> TRUE, fs |-> fs, opened |-> FALSE]
         ELSE Unwritten(fs)

-----------------------------------------------------------------------------
(* main(): where control goes after each call. *)

At(p, d, f) == [pc |-> p, dateIdx |-> d, fileIdx |-> f]

\* for date_str in target_dates (line 115): the next iteration, or the end
NextDate(d) ==
    IF d < Len(target_dates) THEN At("list", d + 1, 0) ELSE At("done", d, 0)

\* variant: main() returns after the files of one date
NextFileEndsRun(d, f, fs) ==
    IF f < Len(fs) THEN At("resolve", d, f + 1) ELSE At("done", d, 0)

\* for file in files (line 122): the next iteration, or the next date
NextFile(d, f, fs) ==
    IF f < Len(fs) THEN At("resolve", d, f + 1) ELSE NextDate(d)

\* variant: if access_token is not None
AfterAuthenticateNotNone(tok) ==
    IF tok # None THEN NextDate(0) ELSE At("done", 0, 0)

\* if access_token (line 111) ... else (line 134)
AfterAuthenticate(tok) ==
    IF Truthy(tok) THEN NextDate(0) ELSE At("done", 0, 0)

\* variant: a missing URL returns from main()
AfterResolveAborts(d, f, fs, url) ==
    IF Truthy(url) THEN At("fetch", d, f) ELSE At("done", d, f)

\* if download_url (line 129) ... else (line 132)
AfterResolve(d, f, fs, url) ==
    IF Truthy(url) THEN At("fetch", d, f) ELSE NextFile(d, f, fs)

\* variant: the exception is handled inside the date loop
OnExceptionContinues(d, f) == NextDate(d)

\* except Exception (line 136): log and fall off the end of main()
OnException(d, f) == At("done", d, f)

Goto(at) ==
    /\ pc' = at.pc
    /\ dateIdx' = at.dateIdx
    /\ fileIdx' = at.fileIdx

\* variant: a fixed credential instead of the run's token
BearerStale(tok) == <<"Bearer", "t1">>

\* headers of lines 50 and 77
Bearer(tok) == <<"Bearer", tok>>

Called(op, req, resp, exc, wrote) ==
    /\ lastCall' = [op |-> op, req |-> req, resp |-> resp, exc |-> exc,
                    wrote |-> wrote]
    /\ calls' = IF op \in DOMAIN calls THEN [calls EXCEPT ![op] = @ + 1] ELSE calls
    /\ raised' = exc

-----------------------------------------------------------------------------
(* History helpers: what the remote side and the claims call things,       *)
(* stated without the program's own helpers.                               *)

\* the part of a remote key after its last '/', the whole key if it has none
RemoteBasename(n) ==
    LET slashes == { i \in 1..Len(n) : n[i] = "/" }
        last == IF slashes = {} THEN 0
                ELSE CHOOSE i \in slashes : \A j \in slashes : j <= i
    IN  [i \in 1..(Len(n) - last) |-> n[last + i]]

\* a download that answered 200 and streamed its whole body
Complete(resp) ==
    resp.kind = "http" /\ resp.status = 200 /\ resp.delivered = Len(resp.body)

Names(records) == [i \in 1..Len(records) |-> records[i].name]

-----------------------------------------------------------------------------
(* State machine *)

NoCall == [op |-> "none", req |-> <<>>, resp |-> TransportError, exc |-> FALSE,
           wrote |-> FALSE]

NoFiles == [p \in {} |-> <<>>]
InitialLocalFiles == { NoFiles, [p \in {<<"a">>} |-> <<0, 0>>] }

Init ==
    /\ pc = "start"
    /\ access_token = None
    /\ dateIdx = 0
    /\ files = <<>>
    /\ fileIdx = 0
    /\ download_url = None
    /\ localFiles \in InitialLocalFiles
    /\ raised = FALSE
    /\ lastCall = NoCall
    /\ calls = [auth |-> 0, list |-> 0, resolve |-> 0]
    /\ cursors = <<>>
    /\ served = <<>>
    /\ attempted = <<>>
    /\ opened = {}
    /\ lastGood = NoFiles
    /\ scenario = TRUE

\* line 110: access_token = authenticate()
Authenticate ==
    /\ pc = "start"
    /\ \E resp \in AuthResponses :
         LET r == authenticate(resp) IN
         /\ Called("auth", [url |-> AUTH_URL], resp, r.exc, FALSE)
         /\ access_token' = r.ret
         /\ Goto(IF r.exc THEN OnException(0, 0) ELSE AfterAuthenticate(r.ret))
    /\ UNCHANGED <<files, download_url, localFiles, cursors, served, attempted,
                   opened, lastGood, scenario>>

\* lines 117-120: files = list_files_in_prefix(access_token, PREFIX, start_after_file)
ListFiles ==
    /\ pc = "list"
    /\ \E resp \in ListResponses :
         LET r == list_files_in_prefix(resp)
             start_after_file == StartAfterFile(target_dates[dateIdx])
             results == IF resp.kind = "http" /\ resp.status = 200 /\ resp.parses
                        THEN Get(resp.json, "results", <<>>) ELSE <<>>
         IN
         /\ Called("list",
                   [url |-> FILES_URL, Authorization |-> Bearer(access_token),
                    pageSize |-> 100, prefix |-> PREFIX,
                    startAfterFile |-> start_after_file],
                   resp, r.exc, FALSE)
         /\ files' = IF r.exc THEN files ELSE r.ret
         /\ Goto(IF r.exc THEN OnException(dateIdx, 0) ELSE NextFile(dateIdx, 0, r.ret))
         /\ cursors' = Append(cursors, start_after_file)
         /\ served' = results
         /\ scenario' = (scenario /\ resp.kind = "http" /\ resp.status = 200
                           /\ resp.parses
                           /\ Len(results) = (IF dateIdx = 1 THEN 2 ELSE 0))
    /\ attempted' = <<>>
    /\ UNCHANGED <<access_token, download_url, localFiles, opened, lastGood>>

\* lines 124-129: download_url = generate_download_url(access_token, file_name)
GenerateUrl ==
    /\ pc = "resolve"
    /\ \E resp \in UrlResponses :
         LET r == generate_download_url(resp)
             file_name == files[fileIdx].name
         IN
         /\ Called("resolve",
                   [url |-> DOWNLOAD_URL_BASE, Authorization |-> Bearer(access_token),
                    fileName |-> file_name],
                   resp, r.exc, FALSE)
         /\ download_url' = IF r.exc THEN download_url ELSE r.ret
         /\ Goto(IF r.exc THEN OnException(dateIdx, fileIdx)
                 ELSE AfterResolve(dateIdx, fileIdx, files, r.ret))
         /\ attempted' = Append(attempted, file_name)
    /\ UNCHANGED <<access_token, files, localFiles, cursors, served, opened,
                   lastGood, scenario>>

\* lines 130-131: download_file(download_url, local_filename)
Download ==
    /\ pc = "fetch"
    /\ \E resp \in DownloadResponses :
         LET file_name == files[fileIdx].name
             local_filename == LocalFilename(file_name)
             r == download_file(resp, localFiles, local_filename)
         IN
         /\ Called("fetch",
                   [url |-> download_url, local_filename |-> local_filename],
                   resp, r.exc, r.opened)
         /\ localFiles' = r.fs
         /\ Goto(IF r.exc THEN OnException(dateIdx, fileIdx)
                 ELSE NextFile(dateIdx, fileIdx, files))
         /\ opened' = IF r.opened THEN opened \cup {local_filename} ELSE opened
         /\ lastGood' = IF Complete(resp) /\ ~r.exc
                        THEN [p \in DOMAIN lastGood \cup {RemoteBasename(file_name)} |->
                                IF p = RemoteBasename(file_name) THEN resp.body
                                ELSE lastGood[p]]
                        ELSE lastGood
    /\ UNCHANGED <<access_token, files, download_url, cursors, served, attempted,
                   scenario>>

Next == Authenticate \/ ListFiles \/ GenerateUrl \/ Download

Spec == Init /\ [][Next]_vars

-----------------------------------------------------------------------------
(* Properties *)

IsCall(op) == lastCall.op = op
Is200(resp) == resp.kind = "http" /\ resp.status = 200
IsNon200(resp) == resp.kind = "http" /\ resp.status # 200

\* where main() is expected after finishing file f of date d, spelled out
ContinuesAfterFile(d, f, n) ==
    IF f < n
    THEN pc' = "resolve" /\ dateIdx' = d /\ fileIdx' = f + 1
    ELSE IF d < 3
         THEN pc' = "list" /\ dateIdx' = d + 1
         ELSE pc' = "done"

\* C1: without a usable token (auth answered non-200, or 200 with the
\* access_token absent or empty) main() makes no listing, no download-URL and
\* no download call: every such call is preceded by the one authenticate()
\* that returned a non-empty token.
C1_NoCallWithoutToken ==
    /\ (IsCall("auth") /\ ~lastCall.exc
          /\ (IsNon200(lastCall.resp)
                \/ Get(lastCall.resp.json, "access_token", None) \in {None, ""}))
       => ~Truthy(access_token)
    /\ ~Truthy(access_token)
       => /\ pc \in {"start", "done"}
          /\ lastCall.op \in {"none", "auth"}
          /\ calls.list = 0 /\ calls.resolve = 0
          /\ cursors = <<>> /\ opened = {}
    /\ (lastCall.op \in {"list", "resolve", "fetch"} \/ pc \in {"list", "resolve", "fetch"})
       => calls.auth = 1 /\ Truthy(access_token)

\* the auth endpoint answered 200 with an empty access_token and the run ended
C1_Witness ==
    /\ pc = "done" /\ IsCall("auth") /\ ~raised
    /\ Is200(lastCall.resp) /\ lastCall.resp.json = [access_token |-> ""]

\* the resolution of the current file produced no URL
NoUrl(resp) ==
    \/ IsNon200(resp)
    \/ Is200(resp) /\ resp.parses /\ Get(resp.json, "downloadUrl", None) \in {None, ""}

\* C2: when the download-URL call of a listed file yields no URL (non-200, or
\* 200 with downloadUrl missing or empty), download_file is not invoked for
\* that file and main() goes on with the next file of the listing, or the
\* next date after the last file (the end of the run after the last date);
\* download_file is only ever invoked after a resolution that gave a URL.
C2_FailedResolutionSkipsFile ==
    [][ /\ (pc = "resolve" /\ NoUrl(lastCall'.resp))
           => /\ lastCall'.op = "resolve" /\ ~raised'
              /\ pc' # "fetch"
              /\ ContinuesAfterFile(dateIdx, fileIdx, Len(files))
              /\ localFiles' = localFiles /\ opened' = opened
        /\ lastCall'.op = "fetch"
           => /\ lastCall.op = "resolve" /\ ~NoUrl(lastCall.resp)
              /\ lastCall.req.fileName = files[fileIdx].name
      ]_vars

\* a failed resolution of the first of two files, and the second being resolved
C2_Witness ==
    /\ pc = "resolve" /\ fileIdx = 2 /\ Len(files) = 2
    /\ IsCall("resolve") /\ IsNon200(lastCall.resp)
    /\ lastCall.req.fileName = files[1].name

\* the listing came back as an HTTP response that gives no files
ListsNothing(resp) ==
    \/ IsNon200(resp)
    \/ Is200(resp) /\ resp.parses /\ Get(resp.json, "results", <<>>) = <<>>

\* C3 as stated: a listing call whose HTTP request itself fails is
\* indistinguishable from a listing of zero files: nothing of that date is
\* resolved or fetched and main() proceeds to list the next date.
C3_TransportFailureLikeEmpty ==
    [][ (pc = "list" /\ lastCall'.resp.kind = "error")
           => /\ ~raised'
              /\ ContinuesAfterFile(dateIdx, 0, 0)
      ]_vars

\* C3 amended: a listing call answered with a non-200 status is
\* indistinguishable from a listing of zero files (files is empty, nothing of
\* that date is resolved or fetched, main() proceeds to list the next date);
\* a listing call whose HTTP request itself fails raises and ends the run.
C3_Non200ListingLikeEmpty ==
    [][ /\ (pc = "list" /\ ListsNothing(lastCall'.resp))
           => /\ ~raised' /\ files' = <<>>
              /\ ContinuesAfterFile(dateIdx, 0, 0)
              /\ localFiles' = localFiles /\ calls'.resolve = calls.resolve
        /\ (pc = "list" /\ lastCall'.resp.kind = "error")
           => raised' /\ pc' = "done"
      ]_vars

\* a non-200 listing of the first date, and main() about to list the second
C3_Witness ==
    /\ pc = "list" /\ dateIdx = 2
    /\ IsCall("list") /\ IsNon200(lastCall.resp) /\ calls.resolve = 0

\* C4: a non-200 answer to download_file creates, truncates and writes no
\* local file (the local files are exactly what they were), raises nothing,
\* and main() continues with the next file.
C4_FailedDownloadWritesNothing ==
    [][ (pc = "fetch" /\ IsNon200(lastCall'.resp))
           => /\ lastCall'.op = "fetch" /\ ~lastCall'.wrote
              /\ localFiles' = localFiles /\ opened' = opened
              /\ ~raised'
              /\ ContinuesAfterFile(dateIdx, fileIdx, Len(files))
      ]_vars

\* a non-200 download of a file whose local path already exists, and the
\* next file of the listing being resolved
C4_Witness ==
    /\ pc = "resolve" /\ fileIdx = 2
    /\ IsCall("fetch") /\ IsNon200(lastCall.resp)
    /\ lastCall.req.local_filename \in DOMAIN localFiles

\* the cursor the listing of the i-th configured date is expected to carry
ExpectedCursor(i) ==
    <<"FirstCreditPaymentByItem", "/", "FirstCreditPaymentByItem", "-",
      <<"08-10-2024", "08-11-2024", "08-12-2024">>[i]>>

\* progress of main(): the stage within the processing of one file
Stage(p) ==
    CASE p = "start" -> 0
      [] p = "list" -> 0
      [] p = "resolve" -> 1
      [] p = "fetch" -> 2
      [] p = "done" -> 3

\* a step ends the run or moves on in the order (date, file, stage)
Advances ==
    \/ pc' = "done"
    \/ dateIdx' > dateIdx
    \/ dateIdx' = dateIdx /\ fileIdx' > fileIdx
    \/ dateIdx' = dateIdx /\ fileIdx' = fileIdx /\ Stage(pc') > Stage(pc)

\* C5: once authenticate() returned a non-empty token, and provided no
\* exception is raised, the run reaches its terminal state having issued
\* exactly one listing call per configured date, whatever statuses the
\* listing, download-URL and download calls returned.  The run terminates:
\* while it has not ended a next call is always possible, every call moves
\* main() forward in the bounded order (date, file, stage) or ends the run,
\* and nothing happens after the end.
C5_RunCompletesAllDates ==
    /\ [](pc = "done" /\ Truthy(access_token) /\ ~raised
            => /\ calls.list = 3
               /\ cursors = [i \in 1..3 |-> ExpectedCursor(i)])
    /\ [](pc # "done" => ENABLED Next)
    /\ [](dateIdx <= 3 /\ fileIdx <= Len(files))
    /\ [][ /\ pc # "done"
           /\ Advances
           /\ (pc # "list" /\ ~raised') => files' = files
         ]_vars

\* a run that ended normally although its last download answered non-200
C5_Witness ==
    /\ pc = "done" /\ ~raised /\ Truthy(access_token)
    /\ IsCall("fetch") /\ IsNon200(lastCall.resp)
    /\ calls.list = 3

\* the outcomes of a call that raise: the request itself fails, a 200 body is
\* not JSON, a listed record lacks a field the listing logs, the local file
\* cannot be opened, the stream breaks before the body is complete
Raises(call) ==
    \/ call.resp.kind = "error"
    \/ /\ call.op \in {"auth", "list", "resolve"}
       /\ Is200(call.resp) /\ ~call.resp.parses
    \/ /\ call.op = "list" /\ Is200(call.resp) /\ call.resp.parses
       /\ \E i \in 1..Len(Get(call.resp.json, "results", <<>>)) :
            DOMAIN call.resp.json.results[i] # {"name", "lastModifiedAtUtc"}
    \/ /\ call.op = "fetch" /\ Is200(call.resp)
       /\ (call.req.local_filename = <<>> \/ call.resp.delivered < Len(call.resp.body))

\* C6: an exception raised anywhere in the run is caught at the top level of
\* main() and ends the run: main() returns normally, and after the exception
\* no further call is made (no remaining file or date is processed, nothing
\* is retried).
C6_ExceptionEndsRun ==
    /\ [](raised => pc = "done")
    /\ [][ /\ ~raised
           /\ Raises(lastCall') => (raised' /\ pc' = "done")
           /\ raised' => Raises(lastCall')
         ]_vars

\* a listing of the first date holding a record without 'name' ended the run
C6_Witness ==
    /\ raised /\ pc = "done" /\ dateIdx = 1
    /\ IsCall("list") /\ Is200(lastCall.resp)
    /\ lastCall.resp.json = [results |-> << [lastModifiedAtUtc |-> 1] >>]

\* C7: the calls are strictly sequential: the i-th listing carries the cursor
\* of the i-th configured date; on a 200 response list_files_in_prefix returns
\* exactly the server's records in the server's order; the files of a date are
\* resolved in that order, each resolve preceding its fetch, which follows
\* whenever a URL was obtained; and the next date is listed (or the run ends
\* normally) only after every file of the date has been resolved.
C7_StrictSequentialOrder ==
    /\ [](/\ Len(cursors) = calls.list
          /\ \A i \in 1..Len(cursors) : cursors[i] = ExpectedCursor(i)
          /\ pc = "list" => Len(cursors) = dateIdx - 1
          /\ IsCall("list")
             => lastCall.req.startAfterFile = ExpectedCursor(calls.list)
          /\ (IsCall("list") /\ Is200(lastCall.resp) /\ ~raised)
             => files = Get(lastCall.resp.json, "results", <<>>)
          /\ pc \in {"resolve", "fetch"}
             => /\ files = served
                /\ attempted = SubSeq(Names(served), 1, Len(attempted))
                /\ Len(attempted) = IF pc = "resolve" THEN fileIdx - 1 ELSE fileIdx
          /\ (pc = "list" \/ (pc = "done" /\ ~raised /\ Truthy(access_token)))
             => attempted = Names(served))
    /\ [][ /\ lastCall'.op = "resolve"
              => lastCall'.req.fileName = served[Len(attempted) + 1].name
           /\ (pc = "resolve" /\ ~raised' /\ ~NoUrl(lastCall'.resp))
              => pc' = "fetch" /\ fileIdx' = fileIdx /\ dateIdx' = dateIdx
           /\ pc = "fetch"
              => /\ lastCall.op = "resolve"
                 /\ lastCall.req.fileName = served[fileIdx].name
                 /\ lastCall'.op = "fetch"
                 /\ lastCall'.req.url = lastCall.resp.json.downloadUrl
         ]_vars

\* a normal end of a run whose last date listed two files, the second fetched
C7_Witness ==
    /\ pc = "done" /\ ~raised /\ Len(cursors) = 3
    /\ Len(served) = 2 /\ served[1] # served[2]
    /\ Len(attempted) = 2 /\ IsCall("fetch")

\* C8: end to end, with a server that answers every call, 2 files for the
\* first date's cursor and 0 for the other two: exactly 3 listing calls are
\* made, with the cursors FirstCreditPaymentByItem/FirstCreditPaymentByItem-<date>,
\* exactly 2 files are attempted (each attempt a resolve, then a fetch if a URL
\* was obtained), and a local file is written for a file only if both its
\* resolution and its fetch returned 200.
C8_EndToEnd ==
    /\ [](pc = "done" /\ Truthy(access_token) /\ scenario /\ ~raised
            => /\ calls.list = 3
               /\ cursors = << <<"FirstCreditPaymentByItem", "/",
                                 "FirstCreditPaymentByItem", "-", "08-10-2024">>,
                               <<"FirstCreditPaymentByItem", "/",
                                 "FirstCreditPaymentByItem", "-", "08-11-2024">>,
                               <<"FirstCreditPaymentByItem", "/",
                                 "FirstCreditPaymentByItem", "-", "08-12-2024">> >>
               /\ calls.resolve = 2)
    /\ [][ (lastCall'.wrote \/ localFiles' # localFiles)
              => /\ lastCall'.op = "fetch" /\ Is200(lastCall'.resp)
                 /\ lastCall.op = "resolve" /\ Is200(lastCall.resp)
                 /\ lastCall.req.fileName = files[fileIdx].name
         ]_vars

\* the scenario run ended normally with a file written
C8_Witness ==
    /\ pc = "done" /\ Truthy(access_token) /\ scenario /\ ~raised
    /\ opened # {} /\ calls.list = 3

\* C9: authenticate() is called exactly once per run and the token it
\* returned is never reassigned: every listing and download-URL call carries
\* that token as its bearer credential.
C9_OneTokenForTheRun ==
    /\ [](/\ calls.auth = IF pc = "start" THEN 0 ELSE 1
          /\ (IsCall("auth") /\ ~raised /\ Is200(lastCall.resp))
             => access_token = Get(lastCall.resp.json, "access_token", None)
          /\ lastCall.op \in {"list", "resolve"}
             => lastCall.req.Authorization = <<"Bearer", access_token>>)
    /\ [][pc # "start" => access_token' = access_token]_vars

\* a failed resolution late in a run, still carrying the run's token
C9_Witness ==
    /\ IsCall("resolve") /\ IsNon200(lastCall.resp)
    /\ calls.resolve >= 3 /\ calls.list = 3
    /\ access_token = "t2"

\* the local paths the run wrote hold the last completed download of their basename
HoldsLastCompleted(p) == p \in DOMAIN lastGood /\ localFiles[p] = lastGood[p]

\* C10 as stated: the local path of a fetched file is the last '/'-separated
\* segment of its remote name, and after any run every local file written by
\* the run holds exactly the body of the last successfully downloaded remote
\* file having that basename.
C10_WrittenFilesHoldLastBody ==
    /\ IsCall("fetch")
       => lastCall.req.local_filename = RemoteBasename(attempted[Len(attempted)])
    /\ \A p \in opened : HoldsLastCompleted(p)

\* C10 amended: as stated, except for the path of a download whose stream
\* raised after the file was opened: that path holds only the chunks received
\* before the exception, and the run has ended.
C10_WrittenFilesHoldLastBodyUnlessBroken ==
    /\ IsCall("fetch")
       => lastCall.req.local_filename = RemoteBasename(attempted[Len(attempted)])
    /\ opened \subseteq DOMAIN localFiles
    /\ \A p \in opened :
         \/ HoldsLastCompleted(p)
         \/ /\ raised /\ pc = "done" /\ IsCall("fetch") /\ Is200(lastCall.resp)
            /\ lastCall.req.local_filename = p
            /\ lastCall.resp.delivered < Len(lastCall.resp.body)
            /\ localFiles[p] = SubSeq(lastCall.resp.body, 1, lastCall.resp.delivered)

\* two remote keys sharing a basename were both downloaded; the path holds
\* the body of the second
C10_Witness ==
    /\ attempted = << <<"d", "/", "a">>, <<"e", "/", "a">> >>
    /\ IsCall("fetch") /\ lastCall.wrote /\ ~raised
    /\ lastCall.resp.body = <<>>
    /\ localFiles[<<"a">>] = <<>>
    /\ calls.resolve = 2

====
